---- MODULE Spec2Model ----
(***************************************************************************)
(* terraform-provider-kubepatch: the patch resource (PatchResource) and    *)
(* the provider that serves it (KubernetesPatchProvider), as a state       *)
(* machine over the plugin-protocol calls the framework makes.             *)
(*                                                                         *)
(* Strings of the plugin framework (types.String) are modelled as TLA+     *)
(* strings; the null and the unknown value are the two reserved strings    *)
(* NullStr and UnknownStr.  Go pointers are strings as well (NilPtr is     *)
(* nil), Go errors are strings (NilErr is the nil error).  A slice that    *)
(* holds zero or one element (the Terraform state of the one resource      *)
(* instance, the API calls of one operation) is a sequence.                *)
(***************************************************************************)
EXTENDS Naturals, Sequences, FiniteSets, TLC

VARIABLES
    server,     \* what GetProviderSchema resolved: type names, resources
    provider,   \* KubernetesPatchProvider after Configure: the data it hands out
    client,     \* PatchResource.client
    tfstate,    \* Terraform state of the resource instance: <<>> or <<model>>
    cluster,    \* the API server: per existing object, the patch last applied
    last,       \* request and response of the operation that ran last
    panicked,   \* the plugin process died of a nil-pointer dereference
    resolved    \* one call of initializeConfiguration: its arguments and results

vars == <<server, provider, client, tfstate, cluster, last, panicked, resolved>>

----------------------------------------------------------------------------
(* Bound of the model: how many patch bodies the inputs are drawn from.    *)
NumData == 2

NullStr == "<null>"
UnknownStr == "<unknown>"
NilPtr == "nil"
NilErr == "<nil>"

\* the namespace of the acceptance test, and another one
Namespaces == {"default", "kube-system"}

\* the patch bodies of the acceptance test (args with six, then seven
\* elements), and further bodies
PatchBodies == <<"[{op:replace,path:/spec/template/spec/containers/0/args,value:args6}]",
                 "[{op:replace,path:/spec/template/spec/containers/0/args,value:args7}]",
                 "{spec:{replicas:2}}",
                 "{metadata:{labels:{patched:true}}}">>
DataValues == {PatchBodies[i] : i \in 1..NumData}

Names == {"opentelemetry-operator-controller-manager"}

\* ids a user may hand to `terraform import`: the id of a resource Create
\* made, and another one
ImportIDs == {"example-id", "imported-id"}

\* the host attribute of the provider block: the API server's URL
Hosts == {"https://10.89.0.2:6443"}

\* the provider block of the acceptance test: host and the three PEM blocks
ProviderBlocks ==
    [host : Hosts, cluster_ca_certificate : {"PEM:ca"},
     client_certificate : {"PEM:client-cert"}, client_key : {"PEM:client-key"}]

----------------------------------------------------------------------------
(* PatchResource.Schema                                                    *)

ResourceOneOf ==
    {"bindings", "componentstatuses", "configmaps", "endpoints", "events",
     "limitranges", "namespaces", "nodes", "persistentvolumeclaims",
     "persistentvolumes", "pods", "podtemplates", "replicationcontrollers",
     "resourcequotas", "secrets", "serviceaccounts", "services",
     "controllerrevisions", "daemonsets", "deployments", "replicasets",
     "statefulsets", "cronjobs", "jobs"}

TypeOneOf == {"json", "merge", "strategic"}

\* the configurations that pass the validators of the schema: all five
\* required attributes are set, resource and type are among the listed values
ValidConfigs ==
    [namespace : Namespaces, resource : ResourceOneOf, name : Names,
     type : TypeOneOf, data : DataValues]

\* The configurations the model draws: every resource kind with every patch
\* type; the namespace varies for a namespaced kind and a cluster-scoped one
\* (deployments, nodes), the patch body for the kind of the acceptance test
\* and for the kind patch has no case for (deployments, bindings).
Configs ==
    {c \in ValidConfigs :
        /\ c.namespace # "default" => c.resource \in {"deployments", "nodes"}
        /\ c.data # PatchBodies[1] => c.resource \in {"deployments", "bindings"}}

\* the plan of a Create: the configuration, with the computed id unknown
CreatePlans == {[namespace |-> c.namespace, resource |-> c.resource, name |-> c.name,
                 type |-> c.type, data |-> c.data, id |-> UnknownStr] : c \in Configs}

\* the plan of an Update: the configuration, with the id the plan modifier
\* UseStateForUnknown copies from the prior state
UpdatePlans(prior) ==
    {[namespace |-> c.namespace, resource |-> c.resource, name |-> c.name,
      type |-> c.type, data |-> c.data, id |-> prior.id] : c \in Configs}

\* types.String.ValueString: the value, "" for null and unknown
ValueString(s) == IF s \in {NullStr, UnknownStr} THEN "" ELSE s

\* types.String.String: the value quoted as by %q
QuotedString(s) == IF s \in {NullStr, UnknownStr} THEN s ELSE "\"" \o s \o "\""

----------------------------------------------------------------------------
(* PatchResource.patch                                                     *)

JSONPatchType == "application/json-patch+json"
MergePatchType == "application/merge-patch+json"
StrategicMergePatchType == "application/strategic-merge-patch+json"

PatchTypeNoStrategic(t) ==
    CASE t = "json" -> JSONPatchType
      [] t = "merge" -> MergePatchType
      [] OTHER -> ""

\* the first switch: var pt k8stypes.PatchType stays "" when no case matches
PatchTypeOf(t) ==
    CASE t = "json" -> JSONPatchType
      [] t = "merge" -> MergePatchType
      [] t = "strategic" -> StrategicMergePatchType
      [] OTHER -> ""

Ep(group, endpoint, namespaced) ==
    <<[group |-> group, endpoint |-> endpoint, namespaced |-> namespaced]>>

\* the second switch: the typed client call a resource kind selects, <<>>
\* when no case matches
EndpointOf(res) ==
    CASE res = "componentstatuses" -> Ep("CoreV1", "ComponentStatuses", FALSE)
      [] res = "configmaps" -> Ep("CoreV1", "ConfigMaps", TRUE)
      [] res = "endpoints" -> Ep("CoreV1", "Endpoints", TRUE)
      [] res = "events" -> Ep("CoreV1", "Events", TRUE)
      [] res = "limitranges" -> Ep("CoreV1", "LimitRanges", TRUE)
      [] res = "namespaces" -> Ep("CoreV1", "Namespaces", FALSE)
      [] res = "nodes" -> Ep("CoreV1", "Nodes", FALSE)
      [] res = "persistentvolumeclaims" -> Ep("CoreV1", "PersistentVolumeClaims", TRUE)
      [] res = "persistentvolumes" -> Ep("CoreV1", "PersistentVolumes", FALSE)
      [] res = "pods" -> Ep("CoreV1", "Pods", TRUE)
      [] res = "podtemplates" -> Ep("CoreV1", "PodTemplates", TRUE)
      [] res = "replicationcontrollers" -> Ep("CoreV1", "ReplicationControllers", TRUE)
      [] res = "resourcequotas" -> Ep("CoreV1", "ResourceQuotas", TRUE)
      [] res = "secrets" -> Ep("CoreV1", "Secrets", TRUE)
      [] res = "serviceaccounts" -> Ep("CoreV1", "ServiceAccounts", TRUE)
      [] res = "services" -> Ep("CoreV1", "Services", TRUE)
      [] res = "controllerrevisions" -> Ep("AppsV1", "ControllerRevisions", TRUE)
      [] res = "daemonsets" -> Ep("AppsV1", "DaemonSets", TRUE)
      [] res = "deployments" -> Ep("AppsV1", "Deployments", TRUE)
      [] res = "replicasets" -> Ep("AppsV1", "ReplicaSets", TRUE)
      [] res = "statefulsets" -> Ep("AppsV1", "StatefulSets", TRUE)
      [] res = "cronjobs" -> Ep("BatchV1", "CronJobs", TRUE)
      [] res = "jobs" -> Ep("BatchV1", "Jobs", TRUE)
      [] OTHER -> <<>>

EndpointJobsSwapped(res) ==
    IF res = "jobs" THEN Ep("BatchV1", "CronJobs", TRUE) ELSE EndpointOf(res)

EndpointNodesNamespaced(res) ==
    IF res = "nodes" THEN Ep("CoreV1", "Nodes", TRUE) ELSE EndpointOf(res)

\* the case patch takes for data.Resource
Dispatch(res) == EndpointOf(res)

BodyQuoted(data) == QuotedString(data.data)

\* the request body: []byte(data.Data.ValueString())
BodyOf(data) == ValueString(data.data)

\* the Patch calls patch makes on client c for the model data: none or one.
\* A cluster-scoped endpoint takes no namespace.
PatchCalls(c, data) ==
    LET ep == Dispatch(ValueString(data.resource))
    IN  IF ep = <<>> THEN <<>>
        ELSE <<[client |-> c,
                group |-> ep[1].group,
                endpoint |-> ep[1].endpoint,
                namespace |-> IF ep[1].namespaced THEN ValueString(data.namespace) ELSE "",
                name |-> ValueString(data.name),
                pt |-> PatchTypeOf(ValueString(data.type)),
                body |-> BodyOf(data),
                opts |-> "PatchOptions{}"]>>

\* r.client.CoreV1() and its siblings read a field of the Clientset: with a
\* nil client the case that is taken panics before any request is made
PatchPanics(c, data) == PatchCalls(c, data) # <<>> /\ c = NilPtr

----------------------------------------------------------------------------
(* The API server.                                                         *)

ObjectOf(call) ==
    [group |-> call.group, endpoint |-> call.endpoint,
     namespace |-> call.namespace, name |-> call.name]

\* the object the fixture of the acceptance test creates
ExistingObjects ==
    {[group |-> "AppsV1", endpoint |-> "Deployments", namespace |-> "default",
      name |-> "opentelemetry-operator-controller-manager"]}

\* what a Patch request may answer: UnsupportedMediaType for a request whose
\* Content-Type is the empty patch type; NotFound for an object that does not
\* exist; for one that exists, success or a rejection of the patch
Responses(call) ==
    IF call.pt = "" THEN {"UnsupportedMediaType"}
    ELSE IF ObjectOf(call) \in ExistingObjects THEN {NilErr, "Invalid"}
    ELSE {"NotFound"}

\* the errors patch may return for the calls it made
PatchErrors(calls) == IF calls = <<>> THEN {NilErr} ELSE Responses(calls[1])

\* the cluster after the calls were answered with err
ClusterAfter(cl, calls, err) ==
    IF calls # <<>> /\ err = NilErr
    THEN [cl EXCEPT ![ObjectOf(calls[1])] = <<[pt |-> calls[1].pt, body |-> calls[1].body]>>]
    ELSE cl

----------------------------------------------------------------------------
(* Diagnostics                                                             *)

ErrorDiag(summary, detail) ==
    [severity |-> "Error", summary |-> summary, detail |-> detail]

HasError(diags) == \E i \in 1..Len(diags) : diags[i].severity = "Error"

ClientError(err) == ErrorDiag("Client Error", "Unable to patch, got error: " \o err)

\* the record of one operation: its plan, the Patch calls it made, the error
\* the call returned, and the diagnostics of its response
Response(op, plan, calls, err, diags) ==
    [op |-> op, plan |-> plan, calls |-> calls, err |-> err, diags |-> diags]

----------------------------------------------------------------------------
(* KubernetesPatchProvider                                                 *)

\* KubernetesPatchProvider.Metadata: resp.TypeName
ProviderTypeName == "kubernetes_patch"

\* KubernetesPatchProvider.Resources: the constructors it returns
ProviderResourceList == <<"NewExampleResource">>

\* PatchResource.Metadata: resp.TypeName for a request's ProviderTypeName
ResourceTypeName(providerTypeName) == providerTypeName \o "_patch"

ClientsetPtrs == {"clientset"}
HTTPDefaultClient == "http.DefaultClient"

\* GetProviderSchema has resolved the names: the framework does so before it
\* configures the provider or serves a resource
Serving == server.typeName # "" /\ ~panicked

\* the framework asks the provider for its type name
ProviderMetadata ==
    /\ ~panicked
    /\ server.providerTypeName = ""
    /\ server' = [server EXCEPT !.providerTypeName = ProviderTypeName]
    /\ last' = Response("ProviderMetadata", <<>>, <<>>, NilErr, <<>>)
    /\ UNCHANGED <<provider, client, tfstate, cluster, panicked, resolved>>

\* the framework asks the provider for its resources
ProviderResources ==
    /\ ~panicked
    /\ server.providerTypeName # ""
    /\ server.resources = <<>>
    /\ server' = [server EXCEPT !.resources = ProviderResourceList]
    /\ last' = Response("ProviderResources", <<>>, <<>>, NilErr, <<>>)
    /\ UNCHANGED <<provider, client, tfstate, cluster, panicked, resolved>>

\* PatchResource.Metadata, the request carrying the provider's type name
Metadata ==
    /\ ~panicked
    /\ server.resources # <<>>
    /\ server.typeName = ""
    /\ server' = [server EXCEPT !.typeName = ResourceTypeName(server.providerTypeName)]
    /\ last' = Response("Metadata", <<>>, <<>>, NilErr, <<>>)
    /\ UNCHANGED <<provider, client, tfstate, cluster, panicked, resolved>>

\* the rest.Config Configure builds from the provider block: Host is
\* data.Host.String(); the statement on ClusterCACertificate assigns nothing,
\* and the client certificate and key are not read at all
RestConfig(block) ==
    [host |-> IF block.host # NullStr THEN QuotedString(block.host) ELSE "",
     caData |-> "", certData |-> "", keyData |-> ""]

\* KubernetesPatchProvider.Configure, once per provider instance: block is the
\* provider block, err what kubernetes.NewForConfig returns
ProviderConfigure(block, err) ==
    /\ Serving
    /\ ~provider.configured
    /\ LET cfg == RestConfig(block)
       IN  IF err # NilErr
           THEN /\ provider' = [provider EXCEPT !.configured = TRUE, !.block = <<block>>,
                                                !.cfg = cfg]
                /\ last' = Response("ProviderConfigure", <<>>, <<>>, NilErr,
                                    <<ErrorDiag("could not get clientset", err)>>)
           ELSE /\ provider' = [configured |-> TRUE, block |-> <<block>>, cfg |-> cfg,
                                dataSourceData |-> HTTPDefaultClient,
                                resourceData |-> "clientset"]
                /\ last' = Response("ProviderConfigure", <<>>, <<>>, NilErr, <<>>)
    /\ UNCHANGED <<server, client, tfstate, cluster, panicked, resolved>>

----------------------------------------------------------------------------
(* PatchResource                                                           *)

ConfigureClientResetOnNil(c, pd) == IF pd \in ClientsetPtrs THEN pd ELSE NilPtr

ConfigureClientStoresAny(c, pd) == IF pd = NilPtr THEN c ELSE pd

\* PatchResource.Configure: r.client after the call with ProviderData pd
ConfigureClient(c, pd) ==
    IF pd = NilPtr THEN c
    ELSE IF pd \notin ClientsetPtrs THEN c
    ELSE pd

ConfigureDiags(pd) ==
    IF pd # NilPtr /\ pd \notin ClientsetPtrs
    THEN <<ErrorDiag("Unexpected Resource Configure Type",
                     "Expected *http.Client, got: " \o pd
                       \o ". Please report this issue to the provider developers.")>>
    ELSE <<>>

\* PatchResource.Configure: pd is nil, the provider's ResourceData, or data of
\* another type (the provider's DataSourceData)
Configure(pd) ==
    /\ Serving
    /\ client' = ConfigureClient(client, pd)
    /\ last' = Response("Configure", <<>>, <<>>, NilErr, ConfigureDiags(pd))
    /\ UNCHANGED <<server, provider, tfstate, cluster, panicked, resolved>>

CreateIdLeftUnknown == UnknownStr

\* the id Create hardcodes
CreateId == "example-id"

StateAlwaysWritten(prior, data, err) == <<data>>

StateDataDropped(prior, data, err) ==
    IF err # NilErr THEN prior ELSE <<[data EXCEPT !.data = NullStr]>>

\* resp.State after Create and Update: the early return on an error of patch
\* leaves the state the framework initialised the response with
StateAfterPatch(prior, data, err) == IF err # NilErr THEN prior ELSE <<data>>

PatchDiags(err) == IF err # NilErr THEN <<ClientError(err)>> ELSE <<>>

\* the diagnostics req.Plan.Get may return: none, or an error for a plan
\* that cannot be read into PatchResourceModel
PlanGetError ==
    ErrorDiag("Value Conversion Error",
              "An unexpected error was encountered trying to build a value.")

PlanGetDiags == {<<>>, <<PlanGetError>>}

NeverReturnsEarly(planDiags) == FALSE

\* if resp.Diagnostics.HasError() { return }, right after req.Plan.Get
ReturnsEarly(planDiags) == HasError(planDiags)

\* PatchResource.Create for a planned resource that is not in state yet
Create(plan, planDiags, err) ==
    /\ Serving
    /\ tfstate = <<>>
    /\ LET data == [plan EXCEPT !.id = CreateId]
           calls == PatchCalls(client, data)
       IN  IF ReturnsEarly(planDiags)
           THEN /\ err = NilErr
                /\ last' = Response("Create", <<plan>>, <<>>, NilErr, planDiags)
                /\ UNCHANGED <<tfstate, cluster, panicked>>
           ELSE IF PatchPanics(client, data)
           THEN /\ err = NilErr
                /\ panicked' = TRUE
                /\ last' = Response("Create", <<plan>>, <<>>, NilErr, planDiags)
                /\ UNCHANGED <<tfstate, cluster>>
           ELSE /\ err \in PatchErrors(calls)
                /\ tfstate' = StateAfterPatch(<<>>, data, err)
                /\ cluster' = ClusterAfter(cluster, calls, err)
                /\ last' = Response("Create", <<plan>>, calls, err,
                                    planDiags \o PatchDiags(err))
                /\ UNCHANGED panicked
    /\ UNCHANGED <<server, provider, client, resolved>>

ReadRefreshingId ==
    /\ Serving
    /\ tfstate # <<>>
    /\ LET data == tfstate[1]
       IN  tfstate' = <<[data EXCEPT !.id = CreateId]>>
    /\ last' = Response("Read", <<>>, <<>>, NilErr, <<>>)
    /\ UNCHANGED <<server, provider, client, cluster, panicked, resolved>>

\* PatchResource.Read: the prior state is written back
Read ==
    /\ Serving
    /\ tfstate # <<>>
    /\ LET data == tfstate[1]
       IN  tfstate' = <<data>>
    /\ last' = Response("Read", <<>>, <<>>, NilErr, <<>>)
    /\ UNCHANGED <<server, provider, client, cluster, panicked, resolved>>

\* PatchResource.Update for a plan that differs from the prior state
Update(plan, planDiags, err) ==
    /\ Serving
    /\ tfstate # <<>>
    /\ plan # tfstate[1]
    /\ LET data == plan
           calls == PatchCalls(client, data)
       IN  IF ReturnsEarly(planDiags)
           THEN /\ err = NilErr
                /\ last' = Response("Update", <<plan>>, <<>>, NilErr, planDiags)
                /\ UNCHANGED <<tfstate, cluster, panicked>>
           ELSE IF PatchPanics(client, data)
           THEN /\ err = NilErr
                /\ panicked' = TRUE
                /\ last' = Response("Update", <<plan>>, <<>>, NilErr, planDiags)
                /\ UNCHANGED <<tfstate, cluster>>
           ELSE /\ err \in PatchErrors(calls)
                /\ tfstate' = StateAfterPatch(tfstate, data, err)
                /\ cluster' = ClusterAfter(cluster, calls, err)
                /\ last' = Response("Update", <<plan>>, calls, err,
                                    planDiags \o PatchDiags(err))
                /\ UNCHANGED panicked
    /\ UNCHANGED <<server, provider, client, resolved>>

DeleteRevertingPatch ==
    /\ Serving
    /\ tfstate # <<>>
    /\ tfstate' = <<>>
    /\ cluster' = [o \in DOMAIN cluster |-> <<>>]
    /\ last' = Response("Delete", <<>>, <<>>, NilErr, <<>>)
    /\ UNCHANGED <<server, provider, client, panicked, resolved>>

\* PatchResource.Delete: nothing but reading the prior state; the framework
\* removes the resource from state when Delete adds no error
Delete ==
    /\ Serving
    /\ tfstate # <<>>
    /\ tfstate' = <<>>
    /\ last' = Response("Delete", <<>>, <<>>, NilErr, <<>>)
    /\ UNCHANGED <<server, provider, client, cluster, panicked, resolved>>

\* kubectl apply of the fixture, outside the provider: the object is back at
\* the fixture's content, whatever patch it carried
KubectlApply ==
    /\ \E o \in DOMAIN cluster :
          /\ cluster[o] # <<>>
          /\ cluster' = [cluster EXCEPT ![o] = <<>>]
    /\ last' = Response("kubectl apply", <<>>, <<>>, NilErr, <<>>)
    /\ UNCHANGED <<server, provider, client, tfstate, panicked, resolved>>

\* PatchResource.ImportState: ImportStatePassthroughID writes the given id to
\* the id attribute of an otherwise null state
ImportState(id) ==
    /\ Serving
    /\ tfstate = <<>>
    /\ tfstate' = <<[namespace |-> NullStr, resource |-> NullStr, name |-> NullStr,
                     type |-> NullStr, data |-> NullStr, id |-> id]>>
    /\ last' = Response("ImportState", <<>>, <<>>, NilErr, <<>>)
    /\ UNCHANGED <<server, provider, client, cluster, panicked, resolved>>

----------------------------------------------------------------------------
AllErrors == {NilErr, "Invalid", "NotFound", "UnsupportedMediaType"}

\* NewPatchResource and New: nothing resolved, configured or patched yet
InitProvider ==
    /\ server = [providerTypeName |-> "", resources |-> <<>>, typeName |-> ""]
    /\ provider = [configured |-> FALSE, block |-> <<>>,
                   cfg |-> [host |-> "", caData |-> "", certData |-> "", keyData |-> ""],
                   dataSourceData |-> NilPtr, resourceData |-> NilPtr]
    /\ client = NilPtr
    /\ tfstate = <<>>
    /\ cluster = [o \in ExistingObjects |-> <<>>]
    /\ last = Response("New", <<>>, <<>>, NilErr, <<>>)
    /\ panicked = FALSE

\* initializeConfiguration is never called by the provider
NotResolved == [input |-> <<>>, output |-> <<>>]

Init == InitProvider /\ resolved = NotResolved

Next ==
    \/ ProviderMetadata
    \/ ProviderResources
    \/ Metadata
    \/ \E block \in ProviderBlocks, err \in {NilErr, "invalid configuration"} :
          ProviderConfigure(block, err)
    \/ \E pd \in {NilPtr, provider.resourceData, provider.dataSourceData} : Configure(pd)
    \/ \E plan \in CreatePlans, err \in AllErrors : Create(plan, <<>>, err)
    \/ Read
    \/ \E plan \in (IF tfstate = <<>> THEN {} ELSE UpdatePlans(tfstate[1])), err \in AllErrors :
          Update(plan, <<>>, err)
    \/ Delete
    \/ \E id \in ImportIDs : ImportState(id)
    \/ KubectlApply

Spec == Init /\ [][Next]_vars

-----------------------------------------------------------------------------
(* Create and Update on plans the schema validators did not see            *)

\* configurations with a resource or a type outside the OneOf lists, next to
\* a valid one
UnvalidatedConfigs ==
    [namespace : {"default"}, resource : {"deployments", "widgets"}, name : Names,
     type : {"json", "yaml"}, data : {PatchBodies[1]}]

UnvalidatedCreatePlans ==
    {[namespace |-> c.namespace, resource |-> c.resource, name |-> c.name,
      type |-> c.type, data |-> c.data, id |-> UnknownStr] : c \in UnvalidatedConfigs}

UnvalidatedUpdatePlans(prior) ==
    {[namespace |-> c.namespace, resource |-> c.resource, name |-> c.name,
      type |-> c.type, data |-> c.data, id |-> prior.id] : c \in UnvalidatedConfigs}

NextUnvalidated ==
    \/ ProviderMetadata
    \/ ProviderResources
    \/ Metadata
    \/ \E block \in ProviderBlocks, err \in {NilErr, "invalid configuration"} :
          ProviderConfigure(block, err)
    \/ \E pd \in {NilPtr, provider.resourceData, provider.dataSourceData} : Configure(pd)
    \/ \E plan \in UnvalidatedCreatePlans, err \in AllErrors : Create(plan, <<>>, err)
    \/ Read
    \/ \E plan \in (IF tfstate = <<>> THEN {} ELSE UnvalidatedUpdatePlans(tfstate[1])),
          err \in AllErrors : Update(plan, <<>>, err)
    \/ Delete
    \/ \E id \in ImportIDs : ImportState(id)
    \/ KubectlApply

SpecUnvalidated == Init /\ [][NextUnvalidated]_vars

-----------------------------------------------------------------------------
(* Create and Update on plans that req.Plan.Get may fail to read           *)

\* the plans of the acceptance test's kind
DeploymentCreatePlans == {p \in CreatePlans : p.resource = "deployments"}

DeploymentUpdatePlans(prior) == {p \in UpdatePlans(prior) : p.resource = "deployments"}

NextPlanErrors ==
    \/ ProviderMetadata
    \/ ProviderResources
    \/ Metadata
    \/ \E block \in ProviderBlocks, err \in {NilErr, "invalid configuration"} :
          ProviderConfigure(block, err)
    \/ \E pd \in {NilPtr, provider.resourceData, provider.dataSourceData} : Configure(pd)
    \/ \E plan \in DeploymentCreatePlans, planDiags \in PlanGetDiags, err \in AllErrors :
          Create(plan, planDiags, err)
    \/ Read
    \/ \E plan \in (IF tfstate = <<>> THEN {} ELSE DeploymentUpdatePlans(tfstate[1])),
          planDiags \in PlanGetDiags, err \in AllErrors : Update(plan, planDiags, err)
    \/ Delete
    \/ \E id \in ImportIDs : ImportState(id)
    \/ KubectlApply

SpecPlanErrors == Init /\ [][NextPlanErrors]_vars

-----------------------------------------------------------------------------
(* initializeConfiguration                                                 *)

\* the environment of the plugin process: KUBE_CONFIG_PATH, KUBE_CONFIG_PATHS
\* (a path list, written as its path names and separators in order; <<>> is
\* the unset or empty variable) and the home directory ("" when it cannot be
\* determined)
ListSeparator == ":"

KubeConfigPathEnv == {"", "/env/one/config"}

KubeConfigPathsEnv ==
    {<<>>, <<"/env/a">>, <<"/env/a", ListSeparator, "~/.kube/config">>,
     <<"/env/a", ListSeparator>>}

HomeDirs == {"/root", ""}

\* values of the config_path attribute and of the config_paths list
ConfigPathValues == {NullStr, "/etc/kube/config", "~/.kube/config", "~admin/config"}

ConfigPathsValues == {<<>>, <<"/cfg/a">>, <<"/cfg/a", "/cfg/b">>}

\* types.String.ValueStringPointer: nil (no element) for null
ValueStringPointer(s) == IF s = NullStr THEN <<>> ELSE <<ValueString(s)>>

\* types.Bool.ValueBoolPointer, for a Bool written "true", "false" or null
ValueBoolPointer(b) == IF b = NullStr THEN <<>> ELSE <<b = "true">>

\* filepath.SplitList: strings.Split on the list separator, [] for ""
RECURSIVE SplitFrom(_, _)
SplitFrom(toks, cur) ==
    IF toks = <<>> THEN <<cur>>
    ELSE IF Head(toks) = ListSeparator
         THEN <<cur>> \o SplitFrom(Tail(toks), "")
         ELSE SplitFrom(Tail(toks), cur \o Head(toks))

SplitList(toks) == IF toks = <<>> THEN <<>> ELSE SplitFrom(toks, "")

\* the paths that start with ~/ and what follows the ~; the paths that start
\* with ~ and another user's name
HomePaths == [p \in {"~/.kube/config"} |-> "/.kube/config"]

UserPaths == {"~admin/config"}

\* homedir.Expand: a path not starting with ~ is returned as it is
Expand(p, home) ==
    IF p \in UserPaths
    THEN [path |-> "", err |-> "cannot expand user-specific home dir"]
    ELSE IF p \in DOMAIN HomePaths
         THEN IF home = ""
              THEN [path |-> "", err |-> "missing HOME environment variable"]
              ELSE [path |-> home \o HomePaths[p], err |-> NilErr]
         ELSE [path |-> p, err |-> NilErr]

\* the first branch of initializeConfiguration: which source names the
\* kubeconfig paths
configPathsOf(d, env) ==
    IF ValueStringPointer(d.config_path) # <<>>
    THEN <<ValueStringPointer(d.config_path)[1]>>
    ELSE IF Len(d.config_paths) > 0
         THEN [i \in 1..Len(d.config_paths) |-> QuotedString(d.config_paths[i])]
         ELSE IF env.KUBE_CONFIG_PATHS # <<>>
              THEN SplitList(env.KUBE_CONFIG_PATHS)
              ELSE <<>>

\* the loop over configPaths: the expanded paths, or the first error
RECURSIVE expandedPathsOf(_, _)
expandedPathsOf(paths, home) ==
    IF paths = <<>> THEN [paths |-> <<>>, err |-> NilErr]
    ELSE LET e == Expand(Head(paths), home)
             rest == expandedPathsOf(Tail(paths), home)
         IN  IF e.err # NilErr THEN [paths |-> <<>>, err |-> e.err]
             ELSE IF rest.err # NilErr THEN rest
             ELSE [paths |-> <<e.path>> \o rest.paths, err |-> NilErr]

\* clientcmd.ClientConfigLoadingRules after the paths were expanded
LoaderOf(expanded) ==
    IF Len(expanded) = 0 THEN [ExplicitPath |-> "", Precedence |-> <<>>]
    ELSE IF Len(expanded) = 1
         THEN [ExplicitPath |-> expanded[1], Precedence |-> <<>>]
         ELSE [ExplicitPath |-> "", Precedence |-> expanded]

\* a diagnostic of initializeConfiguration: severity, summary, detail and
\* the attribute it is attributed to ("" for none)
ConfigDiag(severity, summary, detail, attribute) ==
    [severity |-> severity, summary |-> summary, detail |-> detail,
     attribute |-> attribute]

\* the value a pointer holds, or the zero value when it is nil
OrEmpty(ptr) == IF ptr = <<>> THEN "" ELSE ptr[1]

\* hosts written without a scheme, and hosts without a scheme but with a path
SchemelessHosts == {"10.89.0.2:6443"}

SchemelessPathHosts == {"10.89.0.2:6443/api"}

\* restclient.DefaultServerURL(host, "", GroupVersion{}, defaultTLS): the
\* server URL as a string, or the error
DefaultServerURL(host, defaultTLS) ==
    IF host = ""
    THEN [url |-> "", err |-> "host must be a URL or a host:port pair"]
    ELSE IF host \in SchemelessPathHosts
         THEN [url |-> "", err |-> "host must be a URL or a host:port pair: "
                                   \o QuotedString(host)]
         ELSE IF host \in SchemelessHosts
              THEN [url |-> (IF defaultTLS THEN "https" ELSE "http") \o "://" \o host,
                    err |-> NilErr]
              ELSE [url |-> host, err |-> NilErr]

\* expandStringSliceV2: every element rendered with String()
expandStringSliceV2(s) == [k \in 1..Len(s) |-> QuotedString(s[k])]

\* the ExecConfig built from the first exec block; the order in which the
\* entries of the env map are appended is not fixed, so Env is kept as a set
ExecOf(blocks) ==
    IF Len(blocks) > 0
    THEN LET spec == blocks[1]
         IN  <<[InteractiveMode |-> "IfAvailable",
                APIVersion |-> QuotedString(spec.api_version),
                Command |-> QuotedString(spec.command),
                Args |-> expandStringSliceV2(spec.args),
                Env |-> {[Name |-> kk, Value |-> QuotedString(spec.env[kk])]
                           : kk \in DOMAIN spec.env}]>>
    ELSE <<>>

ContextOverrideAlways(ptr, hasPaths) == OrEmpty(ptr)

\* a context override: set inside if len(configPaths) > 0 only, and only
\* when the attribute is set
ContextOverride(ptr, hasPaths) == IF hasPaths THEN OrEmpty(ptr) ELSE ""

\* the overrides that do not depend on the host: the context overrides, set
\* only when a kubeconfig path was resolved, and the static configuration
OverridesOf(d, hasPaths) ==
    LET kubectx == ValueStringPointer(d.config_context)
        authInfo == ValueStringPointer(d.config_context_auth_info)
        ctxCluster == ValueStringPointer(d.config_context_cluster)
        insecure == ValueBoolPointer(d.insecure)
    IN  [CurrentContext |-> ContextOverride(kubectx, hasPaths),
         ContextAuthInfo |-> ContextOverride(authInfo, hasPaths),
         ContextCluster |-> ContextOverride(ctxCluster, hasPaths),
         InsecureSkipTLSVerify |-> IF insecure = <<>> THEN FALSE ELSE insecure[1],
         TLSServerName |-> OrEmpty(ValueStringPointer(d.tls_server_name)),
         CertificateAuthorityData |-> OrEmpty(ValueStringPointer(d.cluster_ca_certificate)),
         ClientCertificateData |-> OrEmpty(ValueStringPointer(d.client_certificate)),
         Server |-> "",
         Username |-> OrEmpty(ValueStringPointer(d.username)),
         Password |-> OrEmpty(ValueStringPointer(d.password)),
         ClientKeyData |-> OrEmpty(ValueStringPointer(d.client_key)),
         Token |-> OrEmpty(ValueStringPointer(d.token)),
         Exec |-> ExecOf(d.exec),
         ProxyURL |-> OrEmpty(ValueStringPointer(d.proxy_url))]

DefaultTLSIgnoringInsecure(ov) ==
    ov.CertificateAuthorityData # "" \/ ov.ClientCertificateData # ""

\* whether https is the default scheme of a host written without one
DefaultTLS(ov) ==
    LET hasCA == ov.CertificateAuthorityData # ""
        hasCert == ov.ClientCertificateData # ""
    IN  (hasCA \/ hasCert) /\ ~ov.InsecureSkipTLSVerify

InvalidConfigurationError(loadErr) ==
    ConfigDiag("Error",
               "Provider was supplied an invalid configuration. Further operations likely to fail.",
               loadErr, "")

\* the diagnostic for an error of cc.ClientConfig()
InvalidConfigurationWarning(loadErr) ==
    ConfigDiag("Warning",
               "Provider was supplied an invalid configuration. Further operations likely to fail.",
               loadErr, "")

\* initializeConfiguration(d) in environment env, where loadErr is the error
\* of cc.ClientConfig(): the configuration (none for nil), given as the
\* loading rules and overrides it is loaded from, and the diagnostics
initializeConfiguration(d, env, loadErr) ==
    LET configPaths == configPathsOf(d, env)
        expanded == expandedPathsOf(configPaths, env.home)
        overrides == OverridesOf(d, Len(configPaths) > 0)
        v == ValueStringPointer(d.host)
        host == IF v = <<>> THEN [url |-> "", err |-> NilErr]
                ELSE DefaultServerURL(v[1], DefaultTLS(overrides))
    IN  IF expanded.err # NilErr
        THEN [cfg |-> <<>>,
              diags |-> <<ConfigDiag("Error", expanded.err, "", "")>>]
        ELSE IF host.err # NilErr
        THEN [cfg |-> <<>>,
              diags |-> <<ConfigDiag("Error",
                                     "Failed to parse value for host: " \o v[1],
                                     host.err, "host")>>]
        ELSE IF loadErr # NilErr
        THEN [cfg |-> <<>>,
              diags |-> <<InvalidConfigurationWarning(loadErr)>>]
        ELSE [cfg |-> <<[loader |-> LoaderOf(expanded.paths),
                         overrides |-> [overrides EXCEPT !.Server = host.url]]>>,
              diags |-> <<>>]

\* a provider block with no attribute set
EmptyModel ==
    [host |-> NullStr, username |-> NullStr, password |-> NullStr,
     insecure |-> NullStr, tls_server_name |-> NullStr,
     client_certificate |-> NullStr, client_key |-> NullStr,
     cluster_ca_certificate |-> NullStr, config_paths |-> <<>>,
     config_path |-> NullStr, config_context |-> NullStr,
     config_context_auth_info |-> NullStr, config_context_cluster |-> NullStr,
     token |-> NullStr, proxy_url |-> NullStr, exec |-> <<>>]

EmptyEnv == [KUBE_CONFIG_PATH |-> "", KUBE_CONFIG_PATHS |-> <<>>, home |-> "/root"]

Envs ==
    [KUBE_CONFIG_PATH : KubeConfigPathEnv, KUBE_CONFIG_PATHS : KubeConfigPathsEnv,
     home : HomeDirs]

\* provider blocks that differ in the kubeconfig sources
PathModels ==
    {[EmptyModel EXCEPT !.config_path = cp, !.config_paths = cps]
       : cp \in ConfigPathValues, cps \in ConfigPathsValues}

\* provider blocks that differ in the context overrides, with and without a
\* kubeconfig path
ContextModels ==
    {[EmptyModel EXCEPT !.config_path = cp, !.config_context = ctx,
                        !.config_context_auth_info = ai, !.config_context_cluster = cl]
       : cp \in {NullStr, "/etc/kube/config"}, ctx \in {NullStr, "kind-kind"},
         ai \in {NullStr, "kind-admin"}, cl \in {NullStr, "kind-cluster"}}

\* provider blocks that differ in the host and in what decides its scheme
HostModels ==
    {[EmptyModel EXCEPT !.host = h, !.insecure = i, !.cluster_ca_certificate = ca,
                        !.client_certificate = cert, !.client_key = cert]
       : h \in Hosts \cup SchemelessHosts \cup SchemelessPathHosts \cup {NullStr, ""},
         i \in {NullStr, "true", "false"}, ca \in {NullStr, "PEM:ca"},
         cert \in {NullStr, "PEM:client-cert"}}

\* exec blocks
ExecBlocks ==
    {[api_version |-> "client.authentication.k8s.io/v1", command |-> cmd,
      env |-> env, args |-> args]
       : cmd \in {"aws", "gke-gcloud-auth-plugin"},
         env \in {<<>>, [k \in {"AWS_PROFILE"} |-> "dev"]},
         args \in {<<>>, <<"eks", "get-token">>}}

\* provider blocks that differ in the remaining credentials and exec blocks
CredentialModels ==
    {[EmptyModel EXCEPT !.username = u, !.password = u, !.token = t,
                        !.tls_server_name = t, !.proxy_url = t, !.exec = ex]
       : u \in {NullStr, "admin"}, t \in {NullStr, "t0ken"},
         ex \in {<<>>} \cup {<<b>> : b \in ExecBlocks}
                \cup {<<b1, b2>> : b1 \in ExecBlocks, b2 \in ExecBlocks}}

\* what cc.ClientConfig() returns
LoadErrors == {NilErr, "invalid configuration: no configuration has been provided"}

\* the calls of initializeConfiguration that are examined
ConfigInputs ==
    [d : PathModels, env : Envs, loadErr : LoadErrors]
    \cup [d : ContextModels \cup HostModels \cup CredentialModels,
          env : {EmptyEnv}, loadErr : LoadErrors]

\* a call of initializeConfiguration about to be made
InitConfig ==
    /\ InitProvider
    /\ resolved \in {[input |-> <<i>>, output |-> <<>>] : i \in ConfigInputs}

\* the call returns
InitializeConfiguration ==
    /\ resolved.input # <<>>
    /\ resolved.output = <<>>
    /\ LET i == resolved.input[1]
       IN  resolved' = [resolved EXCEPT
                          !.output = <<initializeConfiguration(i.d, i.env, i.loadErr)>>]
    /\ UNCHANGED <<server, provider, client, tfstate, cluster, last, panicked>>

NextConfig == InitializeConfiguration

SpecConfig == InitConfig /\ [][NextConfig]_vars

----------------------------------------------------------------------------
(* Properties                                                              *)

\* the operation that ran last is a Create or an Update that returned
Patched == last.op \in {"Create", "Update"} /\ ~panicked

LastPlan == last.plan[1]

\* client-go: the REST resource each typed client of a group serves
RESTResourceOf(endpoint) ==
    CASE endpoint = "ComponentStatuses" -> "componentstatuses"
      [] endpoint = "ConfigMaps" -> "configmaps"
      [] endpoint = "Endpoints" -> "endpoints"
      [] endpoint = "Events" -> "events"
      [] endpoint = "LimitRanges" -> "limitranges"
      [] endpoint = "Namespaces" -> "namespaces"
      [] endpoint = "Nodes" -> "nodes"
      [] endpoint = "PersistentVolumeClaims" -> "persistentvolumeclaims"
      [] endpoint = "PersistentVolumes" -> "persistentvolumes"
      [] endpoint = "Pods" -> "pods"
      [] endpoint = "PodTemplates" -> "podtemplates"
      [] endpoint = "ReplicationControllers" -> "replicationcontrollers"
      [] endpoint = "ResourceQuotas" -> "resourcequotas"
      [] endpoint = "Secrets" -> "secrets"
      [] endpoint = "ServiceAccounts" -> "serviceaccounts"
      [] endpoint = "Services" -> "services"
      [] endpoint = "ControllerRevisions" -> "controllerrevisions"
      [] endpoint = "DaemonSets" -> "daemonsets"
      [] endpoint = "Deployments" -> "deployments"
      [] endpoint = "ReplicaSets" -> "replicasets"
      [] endpoint = "StatefulSets" -> "statefulsets"
      [] endpoint = "CronJobs" -> "cronjobs"
      [] endpoint = "Jobs" -> "jobs"
      [] OTHER -> ""

CoreV1Kinds ==
    {"componentstatuses", "configmaps", "endpoints", "events", "limitranges",
     "namespaces", "nodes", "persistentvolumeclaims", "persistentvolumes", "pods",
     "podtemplates", "replicationcontrollers", "resourcequotas", "secrets",
     "serviceaccounts", "services"}
AppsV1Kinds == {"controllerrevisions", "daemonsets", "deployments", "replicasets", "statefulsets"}
BatchV1Kinds == {"cronjobs", "jobs"}

\* C1: for every resource kind and patch type the validators accept, a Create
\* or Update that returns has invoked exactly one Patch call.
C1_OneCallPerAcceptedKind ==
    (/\ Patched
     /\ LastPlan.resource \in ResourceOneOf
     /\ LastPlan.type \in TypeOneOf)
    => Len(last.calls) = 1

\* C2: every Patch call goes to the endpoint of its resource kind: the group
\* is the one the kind belongs to and the endpoint serves the resource of
\* that very name.
C2_EndpointMatchesKind ==
    \A i \in DOMAIN last.calls :
        LET call == last.calls[i]
            res == LastPlan.resource
        IN  /\ RESTResourceOf(call.endpoint) = res
            /\ res \in CoreV1Kinds => call.group = "CoreV1"
            /\ res \in AppsV1Kinds => call.group = "AppsV1"
            /\ res \in BatchV1Kinds => call.group = "BatchV1"
            /\ res \in CoreV1Kinds \cup AppsV1Kinds \cup BatchV1Kinds

C2_Witness ==
    /\ Patched
    /\ Len(last.calls) = 1
    /\ LastPlan.resource = "jobs"
    /\ last.calls[1].endpoint = "Jobs"

\* C3: json, merge and strategic map one-to-one to the JSON-Patch, the
\* JSON-Merge-Patch and the strategic-merge-patch type, and no call carries
\* the empty patch type.
C3_PatchTypeMapping ==
    \A i \in DOMAIN last.calls :
        LET pt == last.calls[i].pt
            t == LastPlan.type
        IN  /\ t = "json" <=> pt = "application/json-patch+json"
            /\ t = "merge" <=> pt = "application/merge-patch+json"
            /\ t = "strategic" <=> pt = "application/strategic-merge-patch+json"
            /\ pt \in {"application/json-patch+json", "application/merge-patch+json",
                       "application/strategic-merge-patch+json"}
            /\ pt # ""

C3_Witness ==
    /\ Patched
    /\ Len(last.calls) = 1
    /\ LastPlan.type = "strategic"
    /\ last.calls[1].pt = "application/strategic-merge-patch+json"

HasClientError(diags) ==
    \E i \in DOMAIN diags : diags[i].severity = "Error" /\ diags[i].summary = "Client Error"

\* the state a successful Create or Update writes for a plan
Written(op, plan) == <<[plan EXCEPT !.id = IF op = "Create" THEN "example-id" ELSE plan.id]>>

\* C4: a Create or Update whose Patch call returned an error answers with a
\* "Client Error" diagnostic and leaves the state as it was (none after a
\* Create); one whose call returned no error writes the state and adds no
\* error diagnostic.
C4_ResultSurfaced ==
    [][(/\ last'.op \in {"Create", "Update"}
        /\ ~panicked'
        /\ last'.calls # <<>>)
       => IF last'.err # NilErr
          THEN /\ HasClientError(last'.diags)
               /\ tfstate' = tfstate
               /\ last'.op = "Create" => tfstate' = <<>>
          ELSE /\ tfstate' = Written(last'.op, last'.plan[1])
               /\ ~HasError(last'.diags)]_vars

C4_Witness ==
    /\ last.op = "Update"
    /\ last.calls # <<>>
    /\ last.err # NilErr
    /\ HasClientError(last.diags)
    /\ tfstate # <<>>
    /\ tfstate[1] # LastPlan

\* C5: once the provider has produced a client and the resource has stored
\* it, the stored client never changes, every Patch call of a later
\* operation uses it, and the provider's data is not resolved again.
C5_ClientResolvedOnce ==
    [][/\ client # NilPtr
          => /\ client' = client
             /\ \A i \in DOMAIN last'.calls : last'.calls[i].client = client
       /\ provider.configured => provider' = provider]_vars

C5_Witness ==
    /\ client # NilPtr
    /\ client = provider.resourceData
    /\ last.op = "Update"
    /\ Len(last.calls) = 1
    /\ last.calls[1].client = client

\* the object of the cluster a configuration names
NamedBy(o, plan) ==
    /\ RESTResourceOf(o.endpoint) = plan.resource
    /\ o.name = plan.name
    /\ o.namespace # "" => o.namespace = plan.namespace

\* the patch of a configuration: its body with its declared type
PatchOf(plan) ==
    [pt |-> CASE plan.type = "json" -> "application/json-patch+json"
              [] plan.type = "merge" -> "application/merge-patch+json"
              [] plan.type = "strategic" -> "application/strategic-merge-patch+json"
              [] OTHER -> "",
     body |-> plan.data]

\* C6: after a successful Create the object the configuration names has had
\* the patch body applied with the declared patch type.
C6_CreateAppliesPatch ==
    (/\ last.op = "Create"
     /\ ~panicked
     /\ ~HasError(last.diags)
     /\ tfstate # <<>>)
    => \E o \in DOMAIN cluster :
          /\ NamedBy(o, LastPlan)
          /\ cluster[o] = <<PatchOf(LastPlan)>>

\* C7: an Update of a resource whose data changed issues a Patch call that
\* carries the planned data.
C7_UpdateSendsPlannedData ==
    [][(/\ last'.op = "Update"
        /\ ~panicked'
        /\ tfstate # <<>>
        /\ last'.plan[1].data # tfstate[1].data)
       => /\ Len(last'.calls) = 1
          /\ last'.calls[1].body = last'.plan[1].data]_vars

\* C8: a successful Create leaves id = "example-id" in state, and an Update
\* or Read of a state with that id leaves it there.
C8_IdStable ==
    [][/\ (last'.op = "Create" /\ tfstate' # <<>>) => tfstate'[1].id = "example-id"
       /\ (/\ tfstate # <<>>
           /\ tfstate[1].id = "example-id"
           /\ last'.op \in {"Update", "Read"}
           /\ tfstate' # <<>>)
          => tfstate'[1].id = "example-id"]_vars

C8_Witness ==
    /\ last.op = "Update"
    /\ last.calls # <<>>
    /\ last.err = NilErr
    /\ tfstate # <<>>
    /\ tfstate[1].id = "example-id"

\* C9: the type name PatchResource.Metadata computes from the provider's
\* type name is "kubepatch_patch".
C9_TypeName == server.typeName # "" => server.typeName = "kubepatch_patch"

\* C10: the resources the provider returns include NewPatchResource.
C10_PatchResourceRegistered ==
    server.resources # <<>>
    => \E i \in DOMAIN server.resources : server.resources[i] = "NewPatchResource"

\* C11: with host, cluster_ca_certificate, client_certificate and client_key
\* set, the client the provider hands to resources is built from a
\* configuration that carries exactly those four values.
C11_ClientFromProviderBlock ==
    (provider.resourceData # NilPtr /\ provider.block # <<>>)
    => LET block == provider.block[1]
       IN  /\ provider.cfg.host = block.host
           /\ provider.cfg.caData = block.cluster_ca_certificate
           /\ provider.cfg.certData = block.client_certificate
           /\ provider.cfg.keyData = block.client_key

\* the states Create writes on success
CreatedStates == {[p EXCEPT !.id = CreateId] : p \in CreatePlans}

\* C12: importing a resource by the id Create gave it and then running Read
\* yields a state equal, in all six attributes, to one written by Create.
C12_ImportRoundTrip ==
    [][(last.op = "ImportState" /\ tfstate[1].id = CreateId /\ last'.op = "Read")
       => tfstate'[1] \in CreatedStates]_vars

\* a call of initializeConfiguration that returned a configuration
Resolved == resolved.output # <<>> /\ resolved.output[1].cfg # <<>>

ResolvedInput == resolved.input[1]

ResolvedConfig == resolved.output[1].cfg[1]

\* the kubeconfig files the loading rules name
UsedPaths(loader) ==
    IF loader.Precedence # <<>> THEN loader.Precedence
    ELSE IF loader.ExplicitPath # "" THEN <<loader.ExplicitPath>>
    ELSE <<>>

\* C13: when config_path is not set and KUBE_CONFIG_PATH is non-empty, the
\* kubeconfig is loaded from the path in KUBE_CONFIG_PATH.
C13_KubeConfigPathEnv ==
    (/\ Resolved
     /\ ResolvedInput.d.config_path = NullStr
     /\ ResolvedInput.env.KUBE_CONFIG_PATH # "")
    => UsedPaths(ResolvedConfig.loader) = <<ResolvedInput.env.KUBE_CONFIG_PATH>>

\* the source the precedence rule selects: config_path, else the entries of
\* config_paths, else the entries of KUBE_CONFIG_PATHS, else nothing
SelectedPaths(d, env) ==
    IF d.config_path # NullStr THEN <<d.config_path>>
    ELSE IF d.config_paths # <<>> THEN d.config_paths
    ELSE IF env.KUBE_CONFIG_PATHS # <<>> THEN SplitList(env.KUBE_CONFIG_PATHS)
    ELSE <<>>

\* C14: the kubeconfig paths used are those of the highest-precedence source
\* that is present (config_path, then config_paths, then KUBE_CONFIG_PATHS),
\* exactly its entries in order after home-directory expansion, and nothing
\* from a lower-precedence source.
C14_PathPrecedence ==
    Resolved
    => UsedPaths(ResolvedConfig.loader)
       = expandedPathsOf(SelectedPaths(ResolvedInput.d, ResolvedInput.env),
                         ResolvedInput.env.home).paths

\* C15: a Create or Update whose type is not json, merge or strategic, or
\* whose resource is not one of the enumerated kinds, issues no Patch call
\* and does not report success.
C15_InvalidNeverPatched ==
    (/\ Patched
     /\ (LastPlan.type \notin TypeOneOf \/ LastPlan.resource \notin ResourceOneOf))
    => (last.calls = <<>> /\ HasError(last.diags))

\* C16: in every Patch call the object name is the declared name, the body
\* is the declared data byte for byte, and the patch options are empty.
C16_PayloadUnchanged ==
    Patched
    => \A i \in 1..Len(last.calls) :
          /\ last.calls[i].name = LastPlan.name
          /\ last.calls[i].body = LastPlan.data
          /\ last.calls[i].opts = "PatchOptions{}"

C16_Witness ==
    /\ Patched
    /\ Len(last.calls) = 1
    /\ LastPlan.data = PatchBodies[2]
    /\ last.calls[1].body = PatchBodies[2]
    /\ last.calls[1].name = "opentelemetry-operator-controller-manager"

\* the kinds whose endpoint takes no namespace
ClusterScopedKinds == {"componentstatuses", "namespaces", "nodes", "persistentvolumes"}

\* C17: for a namespaced kind the Patch call is made in the declared
\* namespace; for componentstatuses, namespaces, nodes and persistentvolumes
\* the call carries no namespace and is the same call whatever namespace
\* is declared.
C17_NamespaceScoping ==
    (Patched /\ last.calls # <<>>)
    => LET call == last.calls[1]
       IN  IF LastPlan.resource \in ClusterScopedKinds
           THEN /\ call.namespace = ""
                /\ \A ns \in Namespaces :
                      PatchCalls(call.client, [LastPlan EXCEPT !.namespace = ns])
                      = last.calls
           ELSE call.namespace = LastPlan.namespace

C17_Witness ==
    /\ Patched
    /\ Len(last.calls) = 1
    /\ LastPlan.resource = "nodes"
    /\ LastPlan.namespace = "kube-system"
    /\ last.calls[1].namespace = ""

\* C18: after a successful Create the state equals the plan in namespace,
\* resource, name, type and data and has the id filled in; after a successful
\* Update the state equals the plan in all six attributes.
C18_StateEqualsPlan ==
    (Patched /\ ~HasError(last.diags))
    => /\ Len(tfstate) = 1
       /\ tfstate[1].namespace = LastPlan.namespace
       /\ tfstate[1].resource = LastPlan.resource
       /\ tfstate[1].name = LastPlan.name
       /\ tfstate[1].type = LastPlan.type
       /\ tfstate[1].data = LastPlan.data
       /\ last.op = "Create" => (LastPlan.id = UnknownStr /\ tfstate[1].id = "example-id")
       /\ last.op = "Update" => tfstate[1].id = LastPlan.id

C18_Witness ==
    /\ last.op = "Update"
    /\ ~panicked
    /\ last.calls # <<>>
    /\ ~HasError(last.diags)
    /\ LastPlan.data = PatchBodies[2]
    /\ LastPlan.type = "merge"
    /\ tfstate = <<LastPlan>>

\* C19: Read makes no API call and writes back exactly the prior state,
\* whatever the state and whatever the cluster object holds.
C19_ReadWritesBackState ==
    [][last'.op = "Read"
       => /\ tfstate' = tfstate
          /\ last'.calls = <<>>
          /\ cluster' = cluster]_vars

\* a Read of a state that says a patch is applied to the Deployment, after
\* the Deployment was put back to the fixture's content outside the provider
C19_Witness ==
    /\ last.op = "Read"
    /\ tfstate # <<>>
    /\ tfstate[1].resource = "deployments"
    /\ tfstate[1].namespace = "default"
    /\ tfstate[1].data = PatchBodies[2]
    /\ \A o \in DOMAIN cluster : cluster[o] = <<>>

\* C20: Delete makes no API call and adds no diagnostic; the resource leaves
\* the state and the cluster object keeps what it held.
C20_DeleteLeavesCluster ==
    [][last'.op = "Delete"
       => /\ last'.calls = <<>>
          /\ last'.diags = <<>>
          /\ tfstate' = <<>>
          /\ cluster' = cluster]_vars

C20_Witness ==
    /\ last.op = "Delete"
    /\ tfstate = <<>>
    /\ \E o \in DOMAIN cluster :
          cluster[o] = <<[pt |-> "application/json-patch+json", body |-> PatchBodies[1]]>>

\* C21: Configure with nil provider data adds no diagnostic and leaves the
\* client as it was; with provider data that is not a *kubernetes.Clientset
\* it adds the error "Unexpected Resource Configure Type" and leaves the
\* client as it was; the client changes only to a Clientset it was given.
C21_ConfigureGuards ==
    [][/\ Configure(NilPtr) => (client' = client /\ last'.diags = <<>>)
       /\ Configure(HTTPDefaultClient)
            => /\ client' = client
               /\ Len(last'.diags) = 1
               /\ last'.diags[1].severity = "Error"
               /\ last'.diags[1].summary = "Unexpected Resource Configure Type"
       /\ client' # client
            => (client' \in ClientsetPtrs /\ Configure(client') /\ last'.diags = <<>>)]_vars

C21_Witness ==
    /\ last.op = "Configure"
    /\ HasError(last.diags)
    /\ last.diags[1].summary = "Unexpected Resource Configure Type"
    /\ client \in ClientsetPtrs

\* C22: no Create or Update dereferences a nil client: whatever Configure
\* calls came before, a Patch call is attempted only with a client set.
C22_NoNilClientDereference ==
    /\ ~panicked
    /\ \A i \in 1..Len(last.calls) : last.calls[i].client # NilPtr

\* the operation answered with the error of reading the plan
PlanNotRead(diags) ==
    \E i \in 1..Len(diags) :
       diags[i].severity = "Error" /\ diags[i].summary = "Value Conversion Error"

\* C23: a Create or Update whose reading of the plan produced an error
\* diagnostic issues no Patch call and writes no state.
C23_PlanErrorReturnsEarly ==
    [][(last'.op \in {"Create", "Update"} /\ PlanNotRead(last'.diags))
       => /\ last'.calls = <<>>
          /\ tfstate' = tfstate
          /\ cluster' = cluster
          /\ panicked' = panicked]_vars

C23_Witness ==
    /\ last.op = "Update"
    /\ PlanNotRead(last.diags)
    /\ client \in ClientsetPtrs
    /\ tfstate # <<>>
    /\ tfstate[1] # LastPlan
    /\ LastPlan.namespace = "default"

\* the value an attribute puts into an override: nothing when it is not set
SetOrEmpty(attr) == IF attr = NullStr THEN "" ELSE attr

\* C24: the context overrides are applied only when a kubeconfig path was
\* resolved: without one all three stay empty; with one, config_context,
\* config_context_auth_info and config_context_cluster each set the current
\* context, the context's auth info and the context's cluster when set, and
\* leave them empty when not set.
C24_ContextOverrides ==
    Resolved
    => LET d == ResolvedInput.d
           ov == ResolvedConfig.overrides
       IN  IF UsedPaths(ResolvedConfig.loader) = <<>>
           THEN /\ ov.CurrentContext = ""
                /\ ov.ContextAuthInfo = ""
                /\ ov.ContextCluster = ""
           ELSE /\ ov.CurrentContext = SetOrEmpty(d.config_context)
                /\ ov.ContextAuthInfo = SetOrEmpty(d.config_context_auth_info)
                /\ ov.ContextCluster = SetOrEmpty(d.config_context_cluster)

C24_Witness ==
    /\ Resolved
    /\ UsedPaths(ResolvedConfig.loader) = <<"/etc/kube/config">>
    /\ ResolvedInput.d.config_context = "kind-kind"
    /\ ResolvedInput.d.config_context_auth_info = NullStr
    /\ ResolvedInput.d.config_context_cluster = "kind-cluster"
    /\ ResolvedConfig.overrides.CurrentContext = "kind-kind"
    /\ ResolvedConfig.overrides.ContextAuthInfo = ""
    /\ ResolvedConfig.overrides.ContextCluster = "kind-cluster"

\* a call of initializeConfiguration that returned, with or without a
\* configuration
Returned == resolved.output # <<>>

\* hosts DefaultServerURL cannot make a server URL of
UnparsableHosts == {""} \cup SchemelessPathHosts

\* C25: with host set, a host written without a scheme gets https exactly
\* when a cluster CA certificate or a client certificate is configured and
\* insecure is not true, and http otherwise; a host that cannot be parsed
\* gives no configuration and one error diagnostic "Failed to parse value
\* for host" attributed to the host attribute.
C25_HostDefaultTLS ==
    (Returned /\ ResolvedInput.d.host # NullStr)
    => LET d == ResolvedInput.d
           out == resolved.output[1]
           tls == /\ (d.cluster_ca_certificate # NullStr \/ d.client_certificate # NullStr)
                  /\ d.insecure # "true"
       IN  IF d.host \in UnparsableHosts
           THEN /\ out.cfg = <<>>
                /\ Len(out.diags) = 1
                /\ out.diags[1].severity = "Error"
                /\ out.diags[1].summary = "Failed to parse value for host: " \o d.host
                /\ out.diags[1].attribute = "host"
           ELSE out.cfg # <<>>
                => out.cfg[1].overrides.Server
                   = IF d.host \in SchemelessHosts
                     THEN (IF tls THEN "https://" ELSE "http://") \o d.host
                     ELSE d.host

C25_Witness ==
    /\ Resolved
    /\ ResolvedInput.d.host = "10.89.0.2:6443"
    /\ ResolvedInput.d.cluster_ca_certificate = NullStr
    /\ ResolvedInput.d.client_certificate = "PEM:client-cert"
    /\ ResolvedInput.d.insecure = "false"
    /\ ResolvedConfig.overrides.Server = "https://10.89.0.2:6443"

\* the calls that get as far as cc.ClientConfig(): every kubeconfig path
\* expands and the host, if set, parses
Assembled(i) ==
    /\ expandedPathsOf(configPathsOf(i.d, i.env), i.env.home).err = NilErr
    /\ i.d.host \notin UnparsableHosts

\* C26: when cc.ClientConfig() finds the assembled configuration invalid,
\* the result is no configuration and a single diagnostic of severity
\* Warning; a configuration is returned only with no diagnostic at all.
C26_InvalidConfigIsWarning ==
    Returned
    => LET out == resolved.output[1]
       IN  /\ (ResolvedInput.loadErr # NilErr /\ Assembled(ResolvedInput))
                => /\ out.cfg = <<>>
                   /\ Len(out.diags) = 1
                   /\ out.diags[1].severity = "Warning"
                   /\ out.diags[1].detail = ResolvedInput.loadErr
           /\ out.cfg # <<>> => out.diags = <<>>

C26_Witness ==
    /\ Returned
    /\ ResolvedInput.loadErr # NilErr
    /\ ResolvedInput.d.config_path = "/etc/kube/config"
    /\ resolved.output[1].cfg = <<>>
    /\ Len(resolved.output[1].diags) = 1
    /\ resolved.output[1].diags[1].severity = "Warning"

\* C27: with one or more exec blocks the exec override is built from the
\* first block alone: its api_version, its command, its args in the same
\* number and order and every entry of its env, with interactive mode
\* IfAvailable; with no exec block there is no exec override.
C27_ExecFromFirstBlock ==
    Resolved
    => LET blocks == ResolvedInput.d.exec
           ex == ResolvedConfig.overrides.Exec
       IN  IF blocks = <<>> THEN ex = <<>>
           ELSE /\ Len(ex) = 1
                /\ ex[1].InteractiveMode = "IfAvailable"
                /\ ex[1].APIVersion = blocks[1].api_version
                /\ ex[1].Command = blocks[1].command
                /\ ex[1].Args = blocks[1].args
                /\ ex[1].Env = {[Name |-> kk, Value |-> blocks[1].env[kk]]
                                  : kk \in DOMAIN blocks[1].env}

====
